---- MODULE Spec2Model ----
(***************************************************************************)
(* A model of libime's history bigram learner (historybigram.cpp), of the  *)
(* unknown-word pruning of the pinyin decoder (pinyindecoder.cpp) and of   *)
(* the segment-graph merge block of testpinyinencoder.cpp.                 *)
(*                                                                         *)
(* Numbers: the code blends the two tiers in float, recent + final * 0.05. *)
(* The model keeps the blended values as exact integers scaled by DecayDen *)
(* (0.05 = DecayNum / DecayDen), and a probability as an exact fraction    *)
(* num / den; float rounding is not modelled.                              *)
(***************************************************************************)
EXTENDS Integers, Sequences, FiniteSets, TLC

VARIABLES
    recentPool_,   \* HistoryBigramPrivate::recentPool_
    finalPool_,    \* HistoryBigramPrivate::finalPool_
    unknown_,      \* HistoryBigramPrivate::unknown_
    file,          \* the stream written by the last save (empty: nothing saved)
    saved,         \* history variable: the state the last save was taken from
    addLog,        \* history variable: non-empty sentences passed to add since the last clear/load/construction
    pure,          \* history variable: the state comes from construction or clear by add calls only
    nAdds,         \* number of non-empty add calls made so far (bounded by MaxAdds)
    lastOp,        \* history variable: the last operation called, whether it returned (ok) or threw,
                   \* for load whether the object was as constructed (fresh) and whether it
                   \* counted a word the stream does not hold (replaced), for add whether
                   \* the sentence was empty (empty)
    call,          \* arguments of the current createLatticeNodeImpl call
    node,          \* what createLatticeNodeImpl returned for them
    graph,         \* the receiver SegmentGraph of the merge block
    graph2,        \* the graph last passed to merge (without nodes: none yet)
    before,        \* history variable: the receiver as it was before the last merge
    mergeError,    \* the error raised by the last merge ("none": no error)
    flags,         \* the fuzzy flags the graphs of the merge block are parsed with
    pc,            \* the statement HistoryBigramPool::add is at ("idle": no add is running)
    arg            \* the sentence of the running add

hvars == <<recentPool_, finalPool_, unknown_, file, saved, addLog, pure, nAdds, lastOp>>
dvars == <<call, node>>
gvars == <<graph, graph2, before, mergeError, flags>>
svars == <<pc, arg>>
vars == <<recentPool_, finalPool_, unknown_, file, saved, addLog, pure, nAdds, lastOp,
          call, node, graph, graph2, before, mergeError, flags, pc, arg>>

----------------------------------------------------------------------------
(* Bounds of the model *)

\* the cap of the recent tier (8192 in the code), scaled down
MaxSize == 2
\* the number of non-empty sentences added in one run
MaxAdds == 3

\* the words of the model; none contains the separator '|'
Words == {"a", "b"}
\* the words score and isUnknown are asked about: the empty word too
QueryWords == Words \cup {""}
\* the sentences add is called with
Sentences == {<<>>, <<"a">>, <<"b", "a", "a">>}
\* the values setUnknown is called with
UnknownValues == {-5, 1}

----------------------------------------------------------------------------
(* DATrie<int32_t>: a map from byte strings to counts *)

NO_VALUE == -1

EmptyTrie == [k \in {} |-> 0]

exactMatchSearch(trie, s) == IF s \in DOMAIN trie THEN trie[s] ELSE NO_VALUE

set(trie, s, v) == [k \in DOMAIN trie \cup {s} |-> IF k = s THEN v ELSE trie[k]]

erase(trie, s) == [k \in DOMAIN trie \ {s} |-> trie[k]]

\* update(key, v -> v + 1): the absent value counts as 0
updateInc(trie, s) == set(trie, s, (IF s \in DOMAIN trie THEN trie[s] ELSE 0) + 1)

\* DATrie::save: the stored keys and values
trieSave(trie) == {<<k, trie[k]>> : k \in DOMAIN trie}

\* DATrie::load: the trie holding what the blob holds
trieLoad(blob) == [k \in {e[1] : e \in blob} |-> (CHOOSE e \in blob : e[1] = k)[2]]

----------------------------------------------------------------------------
(* HistoryBigramPool *)

Pool(maxSize, next) ==
    [maxSize_ |-> maxSize, next_ |-> next, size_ |-> 0, recent_ |-> <<>>,
     unigram_ |-> EmptyTrie, bigram_ |-> EmptyTrie]

\* ss << s1 << "|" << s2
bigramKey(s1, s2) == s1 \o "|" \o s2

incFreq(s, trie) == updateInc(trie, s)

\* a decFreq that erases a key whose count drops to 1
decFreqEraseEarly(s, trie) ==
    LET v == exactMatchSearch(trie, s)
    IN IF v = NO_VALUE THEN trie
       ELSE IF v - 1 <= 1 THEN erase(trie, s)
       ELSE set(trie, s, v - 1)

decFreq(s, trie) ==
    LET v == exactMatchSearch(trie, s)
    IN IF v = NO_VALUE THEN trie
       ELSE IF v - 1 <= 0 THEN erase(trie, s)
       ELSE set(trie, s, v - 1)

incUnigram(pool, s) == [pool EXCEPT !.unigram_ = incFreq(s, @)]

decUnigram(pool, s) == [pool EXCEPT !.unigram_ = decFreq(s, @)]

incBigram(pool, s1, s2) == [pool EXCEPT !.bigram_ = incFreq(bigramKey(s1, s2), @)]

decBigram(pool, s1, s2) == [pool EXCEPT !.bigram_ = decFreq(bigramKey(s1, s2), @)]

poolUnigramFreq(pool, s) ==
    LET v == exactMatchSearch(pool.unigram_, s)
    IN IF v = NO_VALUE THEN 0 ELSE v

poolBigramFreq(pool, s1, s2) ==
    LET v == exactMatchSearch(pool.bigram_, bigramKey(s1, s2))
    IN IF v = NO_VALUE THEN 0 ELSE v

\* a clear that leaves the two tries as they are
clearRecentOnly(pool) == [pool EXCEPT !.recent_ = <<>>, !.size_ = 0]

clear(pool) ==
    [pool EXCEPT !.recent_ = <<>>, !.unigram_ = EmptyTrie, !.bigram_ = EmptyTrie,
                 !.size_ = 0]

\* the loop of add over the words of the sentence, from word i on
RECURSIVE addWords(_, _, _)
addWords(pool, sentence, i) ==
    IF i > Len(sentence) THEN pool
    ELSE LET p1 == incUnigram(pool, sentence[i])
             p2 == IF i < Len(sentence)
                   THEN incBigram(p1, sentence[i], sentence[i + 1])
                   ELSE p1
         IN addWords(p2, sentence, i + 1)

\* the loop of remove over the words of the sentence, from word i on
RECURSIVE removeWords(_, _, _)
removeWords(pool, sentence, i) ==
    IF i > Len(sentence) THEN pool
    ELSE LET p1 == decUnigram(pool, sentence[i])
             p2 == IF i < Len(sentence)
                   THEN decBigram(p1, sentence[i], sentence[i + 1])
                   ELSE p1
         IN removeWords(p2, sentence, i + 1)

\* a remove that forgets the counts of the sentence
removeSizeOnly(pool, sentence) == [pool EXCEPT !.size_ = @ - 1]

remove(pool, sentence) ==
    [removeWords(pool, sentence, 1) EXCEPT !.size_ = @ - 1]

\* recent_.push_front(newSentence); size_++
pushFront(pool, sentence) ==
    [pool EXCEPT !.recent_ = <<sentence>> \o @, !.size_ = @ + 1]

\* a pop at the wrong end of the list
popFront(pool) == [pool EXCEPT !.recent_ = SubSeq(@, 2, Len(@))]

\* recent_.pop_back()
popBack(pool) == [pool EXCEPT !.recent_ = SubSeq(@, 1, Len(@) - 1)]

(* d maps the name of a pool to the pool; next_ holds the name of the next  *)
(* pool ("nullptr": none). add(d, p, sentence) is p->add(sentence).         *)
RECURSIVE add(_, _, _), evict(_, _), evictOffByOne(_, _), evictDrop(_, _)
\* an add without the early return for the empty sentence
addNoEmptyCheck(d, p, sentence) ==
    LET d1 == IF d[p].maxSize_ # 0 THEN evict(d, p) ELSE d
    IN [d1 EXCEPT ![p] = pushFront(addWords(@, sentence, 1), sentence)]

add(d, p, sentence) ==
    IF Len(sentence) = 0 THEN d
    ELSE LET d1 == IF d[p].maxSize_ # 0 THEN evict(d, p) ELSE d
         IN [d1 EXCEPT ![p] = pushFront(addWords(@, sentence, 1), sentence)]

\* an eviction loop that lets the tier grow one past its cap
evictOffByOne(d, p) ==
    IF Len(d[p].recent_) > d[p].maxSize_
    THEN LET back == d[p].recent_[Len(d[p].recent_)]
             d1 == add(d, d[p].next_, back)
             d2 == [d1 EXCEPT ![p] = popBack(remove(@, back))]
         IN evictOffByOne(d2, p)
    ELSE d

\* an eviction loop that forgets to hand the sentence to the next pool
evictDrop(d, p) ==
    IF Len(d[p].recent_) >= d[p].maxSize_
    THEN evictDrop([d EXCEPT ![p] = popBack(remove(@, d[p].recent_[Len(d[p].recent_)]))], p)
    ELSE d

\* while (recent_.size() >= maxSize_) { next_->add(back); remove(back); pop_back(); }
evict(d, p) ==
    IF Len(d[p].recent_) >= d[p].maxSize_
    THEN LET back == d[p].recent_[Len(d[p].recent_)]
             d1 == add(d, d[p].next_, back)
             d2 == [d1 EXCEPT ![p] = popBack(remove(@, back))]
         IN evict(d2, p)
    ELSE d

(* recentPool_.add(sentence) statement by statement. s.pc is the statement  *)
(* to execute next, s.d the pools, s.arg the sentence; the call of          *)
(* next_->add is one step.                                                  *)
backOf(d, p) == d[p].recent_[Len(d[p].recent_)]

\* an eviction that removes the sentence from the pool before it hands it over
addStepRemoveFirst(s) ==
    LET p == "recentPool_"
        d == s.d
    IN CASE s.pc = "enter" ->
              [s EXCEPT !.pc = IF Len(s.arg) = 0 THEN "idle" ELSE "loop"]
         [] s.pc = "loop" ->
              [s EXCEPT !.pc = IF d[p].maxSize_ # 0 /\ Len(d[p].recent_) >= d[p].maxSize_
                               THEN "remove" ELSE "insert"]
         [] s.pc = "remove" ->
              [s EXCEPT !.pc = "next_add", !.d = [d EXCEPT ![p] = remove(@, backOf(d, p))]]
         [] s.pc = "next_add" ->
              [s EXCEPT !.pc = "pop_back", !.d = add(d, d[p].next_, backOf(d, p))]
         [] s.pc = "pop_back" ->
              [s EXCEPT !.pc = "loop", !.d = [d EXCEPT ![p] = popBack(@)]]
         [] s.pc = "insert" ->
              [s EXCEPT !.pc = "idle",
                        !.d = [d EXCEPT ![p] = pushFront(addWords(@, s.arg, 1), s.arg)]]

addStep(s) ==
    LET p == "recentPool_"
        d == s.d
    IN CASE s.pc = "enter" ->
              \* if (sentence.empty()) return;
              [s EXCEPT !.pc = IF Len(s.arg) = 0 THEN "idle" ELSE "loop"]
         [] s.pc = "loop" ->
              \* if (maxSize_) while (recent_.size() >= maxSize_)
              [s EXCEPT !.pc = IF d[p].maxSize_ # 0 /\ Len(d[p].recent_) >= d[p].maxSize_
                               THEN "next_add" ELSE "insert"]
         [] s.pc = "next_add" ->
              \* next_->add(recent_.back());
              [s EXCEPT !.pc = "remove", !.d = add(d, d[p].next_, backOf(d, p))]
         [] s.pc = "remove" ->
              \* remove(recent_.back());
              [s EXCEPT !.pc = "pop_back", !.d = [d EXCEPT ![p] = remove(@, backOf(d, p))]]
         [] s.pc = "pop_back" ->
              \* recent_.pop_back();
              [s EXCEPT !.pc = "loop", !.d = [d EXCEPT ![p] = popBack(@)]]
         [] s.pc = "insert" ->
              \* the counts of the new sentence; recent_.push_front; size_++
              [s EXCEPT !.pc = "idle",
                        !.d = [d EXCEPT ![p] = pushFront(addWords(@, s.arg, 1), s.arg)]]

----------------------------------------------------------------------------
(* The stream: a sequence of items, each a u32, the bytes of a word or the *)
(* blob of a trie.                                                         *)

u32(n) == [t |-> "u32", v |-> n]
bytes(s) == [t |-> "bytes", v |-> s]
blob(trie) == [t |-> "trie", v |-> trieSave(trie)]

reversed(seq) == [i \in 1..Len(seq) |-> seq[Len(seq) + 1 - i]]

RECURSIVE saveWords(_, _)
saveWords(sentence, i) ==
    IF i > Len(sentence) THEN <<>>
    ELSE <<u32(Len(sentence[i])), bytes(sentence[i])>> \o saveWords(sentence, i + 1)

RECURSIVE saveSentences(_, _)
saveSentences(sentences, i) ==
    IF i > Len(sentences) THEN <<>>
    ELSE <<u32(Len(sentences[i]))>> \o saveWords(sentences[i], 1)
             \o saveSentences(sentences, i + 1)

\* a save that walks recent_ from the front
saveOrderForward(recent) == recent

\* the order in which save walks recent_: recent_ | boost::adaptors::reversed
saveOrder(recent) == reversed(recent)

\* p->save(out): what is written to out
RECURSIVE save(_, _)
save(d, p) ==
    IF d[p].maxSize_ # 0
    THEN <<u32(Len(d[p].recent_))>> \o saveSentences(saveOrder(d[p].recent_), 1)
             \o save(d, d[p].next_)
    ELSE <<blob(d[p].unigram_), blob(d[p].bigram_)>>

\* the words of one sentence: size times a length and that many bytes
RECURSIVE readWords(_, _, _, _)
readWords(in, pos, size, sentence) ==
    IF size = 0 THEN [ok |-> TRUE, pos |-> pos, sentence |-> sentence]
    ELSE IF pos + 1 > Len(in) THEN [ok |-> FALSE, pos |-> pos, sentence |-> sentence]
    ELSE readWords(in, pos + 2, size - 1, Append(sentence, in[pos + 1].v))

\* while (count--) { read a sentence; add(sentence); }
RECURSIVE readSentences(_, _, _, _, _)
readSentences(d, p, in, pos, count) ==
    IF count = 0 THEN [ok |-> TRUE, pos |-> pos, d |-> d]
    ELSE IF pos > Len(in) THEN [ok |-> FALSE, pos |-> pos, d |-> d]
    ELSE LET r == readWords(in, pos + 1, in[pos].v, <<>>)
         IN IF ~r.ok THEN [ok |-> FALSE, pos |-> r.pos, d |-> d]
            ELSE readSentences(add(d, p, r.sentence), p, in, r.pos, count - 1)

(* p->load(in), reading from item pos on. ok is FALSE when a read fails     *)
(* (throw_if_io_fail): d is then the state the exception leaves behind.     *)
RECURSIVE load(_, _, _, _)
load(d, p, in, pos) ==
    LET d0 == [d EXCEPT ![p] = clear(@)]
    IN IF d0[p].maxSize_ # 0
       THEN IF pos > Len(in) THEN [ok |-> FALSE, pos |-> pos, d |-> d0]
            ELSE LET r == readSentences(d0, p, in, pos + 1, in[pos].v)
                 IN IF ~r.ok THEN r ELSE load(r.d, d0[p].next_, in, r.pos)
       ELSE IF pos > Len(in) THEN [ok |-> FALSE, pos |-> pos, d |-> d0]
       ELSE LET d1 == [d0 EXCEPT ![p].unigram_ = trieLoad(in[pos].v)]
            IN IF pos + 1 > Len(in) THEN [ok |-> FALSE, pos |-> pos + 1, d |-> d1]
               ELSE [ok |-> TRUE, pos |-> pos + 2,
                     d |-> [d1 EXCEPT ![p].bigram_ = trieLoad(in[pos + 1].v)]]

----------------------------------------------------------------------------
(* HistoryBigramPrivate and HistoryBigram *)

\* decay = 0.05f = DecayNum / DecayDen
DecayNum == 1
DecayDen == 20

\* float unknown_ = -5
DefaultUnknown == -5

\* the two pools of a HistoryBigramPrivate: recentPool_{8192, &finalPool_}
NewPools ==
    [recentPool_ |-> Pool(MaxSize, "finalPool_"), finalPool_ |-> Pool(0, "nullptr")]

\* the pools of the current state
D == [recentPool_ |-> recentPool_, finalPool_ |-> finalPool_]

\* a blend that forgets the final tier
unigramFreqRecentOnly(d, s) == poolUnigramFreq(d.recentPool_, s) * DecayDen

\* recentPool_.unigramFreq(s) + finalPool_.unigramFreq(s) * decay, times DecayDen
unigramFreq(d, s) ==
    poolUnigramFreq(d.recentPool_, s) * DecayDen
        + poolUnigramFreq(d.finalPool_, s) * DecayNum

\* recentPool_.bigramFreq(s1, s2) + finalPool_.bigramFreq(s1, s2) * decay, times DecayDen
bigramFreq(d, s1, s2) ==
    poolBigramFreq(d.recentPool_, s1, s2) * DecayDen
        + poolBigramFreq(d.finalPool_, s1, s2) * DecayNum

\* recentPool_.size() + finalPool_.size() * decay, times DecayDen
size(d) == d.recentPool_.size_ * DecayDen + d.finalPool_.size_ * DecayNum

\* the conversion float -> int of "int uf0 = d->unigramFreq(prev)": truncation
toInt(scaled) == scaled \div DecayDen

isUnknown(d, v) == v = "" \/ unigramFreq(d, v) = 0

\* the greatest common divisor, to keep a probability in lowest terms
RECURSIVE gcd(_, _)
gcd(m, n) == IF n = 0 THEN m ELSE gcd(n, m % n)

\* a score without the clamp of pr >= 1.0
scoreResultNoClamp(num, den, unknown) ==
    IF num = 0 THEN [kind |-> "unknown", num |-> 0, den |-> 1, value |-> unknown]
    ELSE [kind |-> "log10", num |-> num \div gcd(num, den),
          den |-> den \div gcd(num, den), value |-> 0]

\* the three returns of score, for the probability num / den
scoreResult(num, den, unknown) ==
    IF num >= den THEN [kind |-> "zero", num |-> 1, den |-> 1, value |-> 0]
    ELSE IF num = 0 THEN [kind |-> "unknown", num |-> 0, den |-> 1, value |-> unknown]
    ELSE [kind |-> "log10", num |-> num \div gcd(num, den),
          den |-> den \div gcd(num, den), value |-> 0]

(* pr = 0.68 * bf / (uf0 + 0.5) + 0.32 * uf1 / (size + 0.5), as the         *)
(* fraction num / den: with sz = 2 * DecayDen * (size + 0.5),               *)
(* pr = 34 * bf / (25 * (2 * uf0 + 1)) + 16 * DecayDen * uf1 / (25 * sz).   *)
score(d, unknown, prev, cur) ==
    LET uf0 == toInt(unigramFreq(d, prev))
        bf == toInt(bigramFreq(d, prev, cur))
        uf1 == toInt(unigramFreq(d, cur))
        sz == 2 * size(d) + DecayDen
        num == 34 * bf * sz + 16 * DecayDen * uf1 * (2 * uf0 + 1)
        den == 25 * (2 * uf0 + 1) * sz
    IN scoreResult(num, den, unknown)

\* two scores are the same float (the probabilities are in lowest terms)
sameScore(s1, s2) == s1 = s2

\* a score is at most 0: log10(pr) <= 0 exactly when pr <= 1
scoreAtMostZero(s) ==
    CASE s.kind = "zero" -> TRUE
      [] s.kind = "unknown" -> s.value <= 0
      [] OTHER -> s.num <= s.den

----------------------------------------------------------------------------
(* History variables *)

NoSave == [valid |-> FALSE, d |-> NewPools, unknown |-> DefaultUnknown,
           addLog |-> <<>>, pure |-> TRUE]

(* empty: the add was given the empty sentence. replaced: the load was      *)
(* called on a history that counted a word its stream does not hold.        *)
Op(op, ok, fresh) ==
    [op |-> op, ok |-> ok, fresh |-> fresh, empty |-> FALSE, replaced |-> FALSE]

\* a state as its constructor leaves it
IsFresh == D = NewPools /\ unknown_ = DefaultUnknown

----------------------------------------------------------------------------
(* The operations of HistoryBigram *)

\* the state after HistoryBigram::HistoryBigram(), nothing saved yet
HistoryInit ==
    /\ recentPool_ = NewPools.recentPool_
    /\ finalPool_ = NewPools.finalPool_
    /\ unknown_ = DefaultUnknown
    /\ file = <<>>
    /\ saved = NoSave
    /\ addLog = <<>>
    /\ pure = TRUE
    /\ nAdds = 0
    /\ lastOp = Op("new", TRUE, FALSE)

\* HistoryBigram::HistoryBigram(): the process starts again with a new object
Construct ==
    /\ recentPool_' = NewPools.recentPool_
    /\ finalPool_' = NewPools.finalPool_
    /\ unknown_' = DefaultUnknown
    /\ addLog' = <<>>
    /\ pure' = TRUE
    /\ lastOp' = Op("new", TRUE, FALSE)
    /\ UNCHANGED <<file, saved, nAdds>>

\* HistoryBigram::add(const std::vector<std::string> &sentence)
Add(W) ==
    /\ Len(W) > 0 => nAdds < MaxAdds
    /\ LET d1 == add(D, "recentPool_", W)
       IN /\ recentPool_' = d1.recentPool_
          /\ finalPool_' = d1.finalPool_
    /\ addLog' = IF Len(W) > 0 THEN Append(addLog, W) ELSE addLog
    /\ nAdds' = IF Len(W) > 0 THEN nAdds + 1 ELSE nAdds
    /\ lastOp' = [Op("add", TRUE, FALSE) EXCEPT !.empty = (Len(W) = 0)]
    /\ UNCHANGED <<unknown_, file, saved, pure>>

\* HistoryBigram::clear()
Clear ==
    /\ recentPool_' = clear(recentPool_)
    /\ finalPool_' = clear(finalPool_)
    /\ addLog' = <<>>
    /\ pure' = TRUE
    /\ lastOp' = Op("clear", TRUE, FALSE)
    /\ UNCHANGED <<unknown_, file, saved, nAdds>>

\* HistoryBigram::setUnknown(float unknown)
SetUnknown(x) ==
    /\ unknown_' = x
    /\ lastOp' = Op("setUnknown", TRUE, FALSE)
    /\ UNCHANGED <<recentPool_, finalPool_, file, saved, addLog, pure, nAdds>>

\* HistoryBigram::save(std::ostream &out), the stream taking all that is written
Save ==
    /\ file' = save(D, "recentPool_")
    /\ saved' = [valid |-> TRUE, d |-> D, unknown |-> unknown_,
                 addLog |-> addLog, pure |-> pure]
    /\ lastOp' = Op("save", TRUE, FALSE)
    /\ UNCHANGED <<recentPool_, finalPool_, unknown_, addLog, pure, nAdds>>

(* HistoryBigram::load(std::istream &in), the stream giving the first k     *)
(* items of the file and failing after them (k = Len(file): the whole file) *)
Load(k) ==
    /\ LET r == load(D, "recentPool_", SubSeq(file, 1, k), 1)
       IN /\ recentPool_' = r.d.recentPool_
          /\ finalPool_' = r.d.finalPool_
          /\ lastOp' = [Op("load", r.ok, IsFresh) EXCEPT !.replaced =
                           r.ok /\ \E w \in Words : /\ ~isUnknown(D, w)
                                                    /\ isUnknown(r.d, w)]
    /\ addLog' = <<>>
    /\ pure' = FALSE
    /\ UNCHANGED <<unknown_, file, saved, nAdds>>

(* HistoryBigram::add, statement by statement *)

StepInit == pc = "idle" /\ arg = <<>>

\* HistoryBigram::add(sentence) is called: d->recentPool_.add(sentence) starts
BeginAdd(W) ==
    /\ pc = "idle"
    /\ Len(W) > 0 => nAdds < MaxAdds
    /\ pc' = "enter"
    /\ arg' = W
    /\ UNCHANGED hvars

\* the running add executes its next statement
AddStep ==
    /\ pc # "idle"
    /\ LET s == addStep([pc |-> pc, d |-> D, arg |-> arg])
       IN /\ recentPool_' = s.d.recentPool_
          /\ finalPool_' = s.d.finalPool_
          /\ pc' = s.pc
          /\ arg' = IF s.pc = "idle" THEN <<>> ELSE arg
    /\ addLog' = IF pc = "insert" THEN Append(addLog, arg) ELSE addLog
    /\ nAdds' = IF pc = "insert" THEN nAdds + 1 ELSE nAdds
    /\ UNCHANGED <<unknown_, file, saved, pure, lastOp>>

\* HistoryBigram::clear(), between two adds
StepClear == pc = "idle" /\ Clear /\ UNCHANGED svars

----------------------------------------------------------------------------
(* PinyinDecoder::createLatticeNodeImpl *)

\* the node graph.start() refers to
StartNode == 0

\* the arguments of the calls of the model
Calls ==
    [unknown : BOOLEAN,                    \* what model->isUnknown(idx, word) answers
     data : {[null |-> TRUE, encodedPinyin_ |-> <<>>]}
              \cup {[null |-> FALSE, encodedPinyin_ |-> e] :
                      e \in {<<>>, <<24, 7>>, <<24, 7, 12, 3>>}},
     path : {<<0, 1>>, <<0, 2>>, <<1, 2>>, <<2, 3>>},
     onlyPath : BOOLEAN,
     word : {"a", "b"},
     idx : {0, 7},
     state : {"s0", "s1"},
     cost : {0, 3}]

NoCall == [unknown |-> FALSE, data |-> [null |-> TRUE, encodedPinyin_ |-> <<>>],
           path |-> <<0, 1>>, onlyPath |-> FALSE, word |-> "a", idx |-> 0,
           state |-> "s0", cost |-> 0]

\* new PinyinLatticeNode(word, idx, path, state, cost, pinyinData), or nullptr
LatticeNode(status, c) ==
    [status |-> status, word |-> c.word, idx |-> c.idx, path |-> c.path,
     state |-> c.state, cost |-> c.cost, data |-> c.data]

\* a pruning that forgets onlyPath
createLatticeNodeImplNoOnlyPath(c) ==
    IF c.unknown
       /\ (~c.data.null /\ Len(c.data.encodedPinyin_) = 2)
       /\ c.path[1] # StartNode
    THEN LatticeNode("nullptr", NoCall)
    ELSE LatticeNode("node", c)

createLatticeNodeImpl(c) ==
    IF c.unknown
       /\ (~c.data.null /\ Len(c.data.encodedPinyin_) = 2)
       /\ c.path[1] # StartNode
       /\ ~c.onlyPath
    THEN LatticeNode("nullptr", NoCall)
    ELSE LatticeNode("node", c)

\* PinyinLatticeNode::encodedPinyin(): of a node, or of the payload a call passes
encodedPinyin(n) == IF n.data.null THEN <<>> ELSE n.data.encodedPinyin_

DecoderInit ==
    /\ call \in Calls
    /\ node = LatticeNode("pending", NoCall)

\* the decoder calls createLatticeNodeImpl for a candidate
CreateLatticeNode ==
    /\ node.status = "pending"
    /\ node' = createLatticeNodeImpl(call)
    /\ UNCHANGED call

\* the decoder goes on to its next candidate
NextCandidate ==
    /\ node.status # "pending"
    /\ call' \in Calls
    /\ node' = LatticeNode("pending", NoCall)

----------------------------------------------------------------------------
(* SegmentGraph: parseUserPinyin and merge, as the merge block of the test *)
(* uses them                                                                *)

\* the longest input of the model
MaxInputLen == 3
\* the most letters one edit of the input appends or deletes
MaxEdit == 2

Letters == {"z", "n", "a", "i", "'"}

\* the inputs of the model: the sequences of at most MaxInputLen letters
Inputs == UNION {[1..n -> Letters] : n \in 0..MaxInputLen}

\* the inputs an edit makes of input s: trailing letters deleted, or letters appended
Edits(s) ==
    {SubSeq(s, 1, k) : k \in {j \in 0..Len(s) : Len(s) - j <= MaxEdit}}
        \cup UNION {{s \o t : t \in [1..n -> Letters]} :
                      n \in {j \in 1..MaxEdit : Len(s) + j <= MaxInputLen}}

\* the fuzzy flags of the model, and the flag sets parseUserPinyin is given
FuzzyFlags == {"Inner", "PartialFinal"}
FlagSets == SUBSET FuzzyFlags

(* SyllableTable, for the letters of the model: the legal syllables, the    *)
(* initials (a bare consonant is a plausible syllable), and the prefixes of *)
(* finals that PartialFinal accepts.                                        *)
Syllables ==
    {<<"a">>, <<"n">>, <<"a", "n">>, <<"a", "i">>, <<"z", "a">>, <<"z", "i">>,
     <<"n", "a">>, <<"n", "i">>, <<"z", "a", "n">>, <<"z", "a", "i">>,
     <<"n", "a", "n">>, <<"n", "a", "i">>, <<"n", "i", "n">>,
     <<"n", "i", "a", "n">>}
Initials == {<<"z">>, <<"n">>}
PartialSyllables == {<<"n", "i", "a">>}

plausible(seg, f) ==
    \/ seg \in Syllables
    \/ seg \in Initials
    \/ "PartialFinal" \in f /\ seg \in PartialSyllables

\* input[s..e): the letters between positions s and e
segment(input, s, e) == SubSeq(input, s + 1, e)

isPrefix(p, s) == Len(p) <= Len(s) /\ SubSeq(s, 1, Len(p)) = p

\* the length of the longest common prefix of two inputs
commonPrefix(s1, s2) ==
    CHOOSE n \in 0..Len(s1) :
        /\ isPrefix(SubSeq(s1, 1, n), s2)
        /\ \A m \in (n + 1)..Len(s1) : ~isPrefix(SubSeq(s1, 1, m), s2)

\* an apostrophe at position e - 1 is a separator: the edge (e - 1, e)
separatorEdges(input) == {<<e - 1, e>> : e \in {i \in 1..Len(input) : input[i] = "'"}}

\* an edge for each prefix of input[s..] that is a plausible syllable
syllableEdges(input, f) ==
    {x \in (0..Len(input)) \X (0..Len(input)) :
        x[1] < x[2] /\ plausible(segment(input, x[1], x[2]), f)}

(* Inner: a syllable ending in n whose body without the n is a syllable too *)
(* also ends one letter earlier, the n beginning the next syllable.         *)
innerEdges(input, f) ==
    IF "Inner" \in f
    THEN {<<x[1], x[2] - 1>> : x \in
            {y \in (0..Len(input)) \X (0..Len(input)) :
                /\ y[1] + 1 < y[2]
                /\ input[y[2]] = "n"
                /\ segment(input, y[1], y[2]) \in Syllables
                /\ segment(input, y[1], y[2] - 1) \in Syllables}}
    ELSE {}

\* the positions without an outgoing edge get an "unknown" single-letter edge
unknownEdges(input, E) ==
    {<<p, p + 1>> : p \in {q \in 0..(Len(input) - 1) : \A x \in E : x[1] # q}}

\* a parse without the unknown single-letter edges
parseNoUnknownEdges(input, f) ==
    [data |-> input, nodes |-> 0..Len(input),
     edges |-> separatorEdges(input) \cup syllableEdges(input, f)
                   \cup innerEdges(input, f)]

\* the graph of an input: a node for each position 0..len, and the edges
parseUserPinyin(input, f) ==
    LET E == separatorEdges(input) \cup syllableEdges(input, f) \cup innerEdges(input, f)
    IN [data |-> input, nodes |-> 0..Len(input),
        edges |-> E \cup unknownEdges(input, E)]

NoGraph == [data |-> <<>>, nodes |-> {}, edges |-> {}]

\* the nodes reached from the nodes S along at most k edges of E
RECURSIVE reach(_, _, _)
reach(E, S, k) ==
    IF k = 0 THEN S
    ELSE reach(E, S \cup {x[2] : x \in {y \in E : y[1] \in S}}, k - 1)

\* the nodes with a path from the start, and those with a path to the end
fromStart(g) == reach(g.edges, {0}, Len(g.data))
toEnd(g) == reach({<<x[2], x[1]>> : x \in g.edges}, {Len(g.data)}, Len(g.data))

(* the graph is well formed: start and end are nodes, the edges go forward  *)
(* between nodes, and every node has a path from the start and to the end   *)
checkGraph(g) ==
    /\ g.nodes \subseteq 0..Len(g.data)
    /\ 0 \in g.nodes /\ Len(g.data) \in g.nodes
    /\ \A x \in g.edges : x[1] \in g.nodes /\ x[2] \in g.nodes /\ x[1] < x[2]
    /\ \A v \in g.nodes : v \in fromStart(g) /\ v \in toEnd(g)

\* a merge that accepts prefix extensions only
mergeStrict(self, g2) ==
    IF isPrefix(self.data, g2.data)
    THEN [graph |-> [data |-> g2.data, nodes |-> self.nodes \cup g2.nodes,
                     edges |-> self.edges \cup g2.edges],
          error |-> "none"]
    ELSE [graph |-> self, error |-> "InvalidMerge"]

\* a merge that keeps every node and edge of the receiver
mergeUnion(self, g2) ==
    [graph |-> [data |-> g2.data, nodes |-> self.nodes \cup g2.nodes,
                edges |-> self.edges \cup g2.edges],
     error |-> "none"]

(* self.merge(g2): the nodes of the shared prefix are kept with the edges   *)
(* between them, the other nodes are those of g2 with their incoming and    *)
(* outgoing edges; the receiver then covers the input of g2.                *)
merge(self, g2) ==
    LET c == commonPrefix(self.data, g2.data)
    IN [graph |-> [data |-> g2.data,
                   nodes |-> {n \in self.nodes : n <= c} \cup {n \in g2.nodes : n > c},
                   edges |-> {x \in self.edges : x[2] <= c}
                                 \cup {x \in g2.edges : x[2] > c}],
        error |-> "none"]

GraphInit ==
    /\ flags \in FlagSets
    /\ graph = parseUserPinyin(<<>>, flags)
    /\ graph2 = NoGraph
    /\ before = parseUserPinyin(<<>>, flags)
    /\ mergeError = "none"

(* graph2 = parseUserPinyin(input); graph.merge(graph2), for an input that  *)
(* appends letters to the receiver's or deletes trailing letters from it    *)
Merge(input) ==
    /\ mergeError = "none"
    /\ Len(input) - Len(graph.data) \in (0 - MaxEdit)..MaxEdit
    /\ isPrefix(graph.data, input) \/ isPrefix(input, graph.data)
    /\ LET g2 == parseUserPinyin(input, flags)
           r == merge(graph, g2)
       IN /\ graph' = r.graph
          /\ mergeError' = r.error
          /\ graph2' = g2
    /\ before' = graph
    /\ UNCHANGED flags

----------------------------------------------------------------------------
(* The specifications *)

\* the other components stay as they are built
IdleHistory == HistoryInit
IdleDecoder == call = NoCall /\ node = LatticeNode("idle", NoCall)
IdleGraph ==
    /\ graph = NoGraph /\ graph2 = NoGraph /\ before = NoGraph
    /\ mergeError = "none" /\ flags = {}

IdleSteps == StepInit

Init == HistoryInit /\ IdleDecoder /\ IdleGraph /\ IdleSteps

Next ==
    \/ Construct /\ UNCHANGED <<dvars, gvars, svars>>
    \/ \E W \in Sentences : Add(W) /\ UNCHANGED <<dvars, gvars, svars>>
    \/ Clear /\ UNCHANGED <<dvars, gvars, svars>>
    \/ \E x \in UnknownValues : SetUnknown(x) /\ UNCHANGED <<dvars, gvars, svars>>
    \/ Save /\ UNCHANGED <<dvars, gvars, svars>>
    \/ \E k \in 0..Len(file) : Load(k) /\ UNCHANGED <<dvars, gvars, svars>>

DecoderInitAll == IdleHistory /\ DecoderInit /\ IdleGraph /\ IdleSteps

DecoderNext ==
    \/ CreateLatticeNode /\ UNCHANGED <<hvars, gvars, svars>>
    \/ NextCandidate /\ UNCHANGED <<hvars, gvars, svars>>

DecoderSpec == DecoderInitAll /\ [][DecoderNext]_vars

GraphInitAll == IdleHistory /\ IdleDecoder /\ GraphInit /\ IdleSteps

GraphNext == \E input \in Edits(graph.data) : Merge(input) /\ UNCHANGED <<hvars, dvars, svars>>

GraphSpec == GraphInitAll /\ [][GraphNext]_vars

StepInitAll == HistoryInit /\ IdleDecoder /\ IdleGraph /\ StepInit

StepNext ==
    \/ \E W \in Sentences : BeginAdd(W) /\ UNCHANGED <<dvars, gvars>>
    \/ AddStep /\ UNCHANGED <<dvars, gvars>>
    \/ StepClear /\ UNCHANGED <<dvars, gvars>>

StepSpec == StepInitAll /\ [][StepNext]_vars

Spec == Init /\ [][Next]_vars

----------------------------------------------------------------------------
(* What the claims speak of *)

\* the number of occurrences of word w in sentence W
occ(w, W) == Cardinality({i \in 1..Len(W) : W[i] = w})

\* the number of occurrences of the consecutive pair (w1, w2) in sentence W
occ2(w1, w2, W) ==
    Cardinality({i \in 1..(Len(W) - 1) : W[i] = w1 /\ W[i + 1] = w2})

\* the words of a list of sentences
wordsOf(sentences) ==
    UNION {{sentences[i][j] : j \in 1..Len(sentences[i])} : i \in 1..Len(sentences)}

\* the last min(Len(log), MaxSize) sentences of a log, in the order they were added
lastAdded(log) ==
    SubSeq(log, IF Len(log) > MaxSize THEN Len(log) - MaxSize + 1 ELSE 1, Len(log))

\* the sentences of the first tier of a stream, in the order they are written
RECURSIVE streamSentences(_, _, _)
streamSentences(in, pos, count) ==
    IF count = 0 THEN <<>>
    ELSE LET r == readWords(in, pos + 1, in[pos].v, <<>>)
         IN <<r.sentence>> \o streamSentences(in, r.pos, count - 1)

fileSentences == IF Len(file) = 0 THEN <<>> ELSE streamSentences(file, 2, file[1].v)

\* the number of occurrences of word w in the sentences of a list
RECURSIVE occAll(_, _)
occAll(w, sentences) ==
    IF Len(sentences) = 0 THEN 0
    ELSE occ(w, Head(sentences)) + occAll(w, Tail(sentences))

\* the number of occurrences of the pair (w1, w2) in the sentences of a list
RECURSIVE occ2All(_, _, _)
occ2All(w1, w2, sentences) ==
    IF Len(sentences) = 0 THEN 0
    ELSE occ2(w1, w2, Head(sentences)) + occ2All(w1, w2, Tail(sentences))

\* the sentence an add of W evicts from the recent tier (<<>>: none)
evicted(W) ==
    IF Len(W) > 0 /\ Len(recentPool_.recent_) >= MaxSize
    THEN recentPool_.recent_[Len(recentPool_.recent_)]
    ELSE <<>>

----------------------------------------------------------------------------
(* The claims *)

(* C1, as claimed: after save and load into a fresh HistoryBigram of a      *)
(* state produced by add calls, score(a, b) is what it was when saved, for  *)
(* every pair of words.                                                     *)
C1_SaveLoadIdentity ==
    (/\ lastOp.op = "load" /\ lastOp.ok /\ lastOp.fresh
     /\ saved.valid /\ saved.pure /\ saved.unknown = DefaultUnknown)
    => \A a \in QueryWords, b \in QueryWords :
          sameScore(score(D, unknown_, a, b), score(saved.d, saved.unknown, a, b))

(* C2, as claimed: after a load that failed with an I/O error, both pools   *)
(* are empty: no sentences, no counts, size 0.                              *)
C2_FailedLoadLeavesEmpty ==
    (lastOp.op = "load" /\ ~lastOp.ok) => D = NewPools

(* C3, as claimed: add(W) increases the blended unigramFreq(w) by exactly 1 *)
(* for each occurrence of w in W and the blended bigramFreq(w1, w2) by      *)
(* exactly 1 for each occurrence of the pair in W, in every state.          *)
C3_AddIncrementsByOne ==
    [][\A W \in Sentences : Add(W) =>
         /\ \A w \in Words :
               unigramFreq(D', w) = unigramFreq(D, w) + DecayDen * occ(w, W)
         /\ \A w1 \in Words, w2 \in Words :
               bigramFreq(D', w1, w2)
                   = bigramFreq(D, w1, w2) + DecayDen * occ2(w1, w2, W)]_vars

(* C3, amended: add(W) increases the blended frequencies by 1 for each      *)
(* occurrence in W, and when the add evicts the oldest sentence E of the    *)
(* recent tier they also drop by 1 - 0.05 for each occurrence in E, whose   *)
(* counts move to the final tier.                                           *)
C3_AddIncrements ==
    [][\A W \in Sentences : Add(W) =>
         /\ \A w \in Words :
               unigramFreq(D', w)
                   = unigramFreq(D, w) + DecayDen * occ(w, W)
                       - (DecayDen - DecayNum) * occ(w, evicted(W))
         /\ \A w1 \in Words, w2 \in Words :
               bigramFreq(D', w1, w2)
                   = bigramFreq(D, w1, w2) + DecayDen * occ2(w1, w2, W)
                       - (DecayDen - DecayNum) * occ2(w1, w2, evicted(W))]_vars

\* C3: an add has evicted a sentence, and a word has been added twice
C3_Witness ==
    /\ lastOp.op = "add" /\ pure /\ Len(addLog) > MaxSize
    /\ finalPool_.size_ > 0
    /\ \E w \in Words : poolUnigramFreq(recentPool_, w) >= 2

(* C4: the recent tier never holds more than its cap, and after more than   *)
(* cap non-empty sentences were added to an empty history, recent.size is   *)
(* the cap and final.size is the number added less the cap.                 *)
C4_EvictionSizes ==
    /\ recentPool_.size_ <= MaxSize
    /\ Len(recentPool_.recent_) <= MaxSize
    /\ (pure /\ Len(addLog) > MaxSize) =>
          /\ recentPool_.size_ = MaxSize
          /\ finalPool_.size_ = Len(addLog) - MaxSize

\* C4: more sentences than the cap were added to an empty history
C4_Witness == pure /\ Len(addLog) > MaxSize /\ lastOp.op = "add"

(* C5, as claimed: score(prev, cur) returns the unknown floor exactly when  *)
(* the blended bigram count of (prev, cur) and the blended unigram count of *)
(* cur are both zero.                                                       *)
C5_UnknownIffNoEvidence ==
    \A prev \in QueryWords, cur \in QueryWords :
        (score(D, unknown_, prev, cur).kind = "unknown")
            <=> (bigramFreq(D, prev, cur) = 0 /\ unigramFreq(D, cur) = 0)

(* C6, as claimed: score(a, b) is at most 0 in every state, whatever value  *)
(* setUnknown was called with.                                              *)
C6_ScoreAtMostZero ==
    \A a \in QueryWords, b \in QueryWords : scoreAtMostZero(score(D, unknown_, a, b))

(* C6, amended: score(a, b) is at most 0 whenever it is not the unknown     *)
(* floor, and the floor it returns otherwise is the value setUnknown was    *)
(* given: score(a, b) <= 0 in every state whose floor is <= 0.              *)
C6_ScoreAtMostZeroOrFloor ==
    \A a \in QueryWords, b \in QueryWords :
        LET s == score(D, unknown_, a, b)
        IN /\ s.kind # "unknown" => scoreAtMostZero(s)
           /\ s.kind = "unknown" => s.value = unknown_
           /\ unknown_ <= 0 => scoreAtMostZero(s)

\* C6: a positive floor is set and the history scores a pair with pr >= 1
C6_Witness ==
    /\ unknown_ > 0
    /\ \E a \in Words, b \in Words : score(D, unknown_, a, b).kind = "zero"
    /\ \E a \in Words, b \in QueryWords : score(D, unknown_, a, b).kind = "unknown"

(* C7: isUnknown(w) is true exactly when w is the empty word or w has no    *)
(* count in either tier, so a word added since the last clear or load is    *)
(* not unknown, also when its sentence has moved to the final tier.         *)
C7_IsUnknown ==
    /\ \A w \in QueryWords :
          isUnknown(D, w) <=>
              \/ w = ""
              \/ /\ poolUnigramFreq(recentPool_, w) = 0
                 /\ poolUnigramFreq(finalPool_, w) = 0
    /\ \A w \in wordsOf(addLog) : ~isUnknown(D, w)

\* C7: a word that was added is counted in the final tier only
C7_Witness ==
    \E w \in wordsOf(addLog) :
        /\ poolUnigramFreq(recentPool_, w) = 0
        /\ poolUnigramFreq(finalPool_, w) > 0

(* C8: createLatticeNodeImpl returns no node exactly when the language     *)
(* model reports the word unknown, the encoded pinyin is 2 bytes long, the  *)
(* path does not start at the graph's start node and onlyPath is false; in  *)
(* every other case it returns a node with the given word, index, path,     *)
(* state and cost.                                                          *)
C8_UnknownPruning ==
    node.status # "pending" =>
        /\ node.status = "nullptr" <=>
              /\ call.unknown
              /\ Len(encodedPinyin(call)) = 2
              /\ call.path[1] # StartNode
              /\ ~call.onlyPath
        /\ node.status # "nullptr" =>
              /\ node.status = "node"
              /\ node.word = call.word /\ node.idx = call.idx
              /\ node.path = call.path /\ node.state = call.state
              /\ node.cost = call.cost
              /\ encodedPinyin(node) = encodedPinyin(call)

\* C8: an unknown single syllable in mid-graph survives because onlyPath is set
C8_Witness ==
    /\ node.status = "node"
    /\ call.unknown /\ Len(encodedPinyin(node)) = 2
    /\ call.path[1] # StartNode /\ call.onlyPath

C9_SaveNewestFirst ==
    (saved.valid /\ saved.pure) => fileSentences = reversed(lastAdded(saved.addLog))

(* C9, amended: save writes the sentences of the recent tier oldest first,  *)
(* in the order they were added.                                            *)
C9_SaveOldestFirst ==
    (saved.valid /\ saved.pure) => fileSentences = lastAdded(saved.addLog)

\* C9: a saved stream holds two different sentences
C9_Witness ==
    /\ saved.valid /\ saved.pure
    /\ Len(fileSentences) >= 2
    /\ fileSentences[1] # fileSentences[2]

(* C13, as claimed: the sentence list recent_ of the final pool is empty in *)
(* every state reachable by add, clear, load and save.                      *)
C13_FinalRecentEmpty == finalPool_.recent_ = <<>>

(* C14, as claimed: an eviction decrements the recent pool by the evicted   *)
(* sentence before it adds the sentence to the final pool: in no state,     *)
(* intermediate ones included, is a sentence counted in both pools.         *)
C14_RemoveBeforeHandOver ==
    /\ recentPool_.size_ + finalPool_.size_ <= Len(addLog)
    /\ \A w \in Words :
          poolUnigramFreq(recentPool_, w) + poolUnigramFreq(finalPool_, w)
              <= occAll(w, addLog)

(* C14, amended: an eviction first adds the oldest sentence to the final    *)
(* pool, then removes its counts from the recent pool, then pops it from    *)
(* the list, all before the new sentence is inserted: between the first two *)
(* steps the sentence is counted in both pools, and in no state is it       *)
(* counted in neither.                                                      *)
C14_HandOverBeforeRemove ==
    LET both == pc = "remove"
        back == IF both THEN backOf(D, "recentPool_") ELSE <<>>
    IN /\ recentPool_.size_ + finalPool_.size_ = Len(addLog) + (IF both THEN 1 ELSE 0)
       /\ \A w \in Words :
             poolUnigramFreq(recentPool_, w) + poolUnigramFreq(finalPool_, w)
                 = occAll(w, addLog) + occ(w, back)
       /\ \A w1 \in Words, w2 \in Words :
             poolBigramFreq(recentPool_, w1, w2) + poolBigramFreq(finalPool_, w1, w2)
                 = occ2All(w1, w2, addLog) + occ2(w1, w2, back)
       /\ both => /\ Len(back) > 0
                   /\ finalPool_.recent_[1] = back
                   /\ Len(recentPool_.recent_) = MaxSize
       /\ pc = "pop_back" =>
               /\ Len(recentPool_.recent_) = MaxSize
               /\ recentPool_.size_ = MaxSize - 1
               /\ finalPool_.recent_[1] = backOf(D, "recentPool_")
       /\ pc = "insert" => Len(recentPool_.recent_) < MaxSize

\* C14: a three-word sentence is handed over and not yet removed from the recent pool
C14_Witness ==
    /\ pc = "remove" /\ Len(arg) > 0
    /\ Len(backOf(D, "recentPool_")) > 1
    /\ finalPool_.size_ + recentPool_.size_ = Len(addLog) + 1

C16_SaveLoadRecency ==
    (lastOp.op = "load" /\ lastOp.ok /\ saved.valid) =>
        /\ recentPool_.recent_ = saved.d.recentPool_.recent_
        /\ recentPool_ = saved.d.recentPool_
        /\ \A W \in Sentences :
              add(D, "recentPool_", W).recentPool_
                  = add(saved.d, "recentPool_", W).recentPool_

\* C16: a full recent tier of two different sentences was saved and loaded
C16_Witness ==
    /\ lastOp.op = "load" /\ lastOp.ok /\ saved.valid
    /\ Len(recentPool_.recent_) = MaxSize
    /\ recentPool_.recent_[1] # recentPool_.recent_[MaxSize]

(* C17: in a state reached from the empty history by adds only, for every   *)
(* word the counts of the two pools add up to its occurrences in all the    *)
(* sentences added, likewise for every pair of words, and the sizes of the  *)
(* two pools add up to the number of non-empty sentences added.             *)
C17_CountsConserved ==
    pure =>
        /\ \A w \in Words :
              poolUnigramFreq(recentPool_, w) + poolUnigramFreq(finalPool_, w)
                  = occAll(w, addLog)
        /\ \A w1 \in Words, w2 \in Words :
              poolBigramFreq(recentPool_, w1, w2) + poolBigramFreq(finalPool_, w1, w2)
                  = occ2All(w1, w2, addLog)
        /\ recentPool_.size_ + finalPool_.size_ = Len(addLog)

\* C17: a word and a pair are counted in the final pool, the word in both pools
C17_Witness ==
    /\ pure
    /\ \E w \in Words :
          poolUnigramFreq(recentPool_, w) > 0 /\ poolUnigramFreq(finalPool_, w) > 0
    /\ \E w1 \in Words, w2 \in Words : poolBigramFreq(finalPool_, w1, w2) > 0

(* C18: the counters of the recent pool are the counts of its sentence      *)
(* list: size_ is the number of sentences, unigram_ and bigram_ hold the    *)
(* occurrences of each word and pair in them, and no key is stored with a   *)
(* count of 0 or less.                                                      *)
C18_RecentConsistent ==
    /\ recentPool_.size_ = Len(recentPool_.recent_)
    /\ \A w \in Words : poolUnigramFreq(recentPool_, w) = occAll(w, recentPool_.recent_)
    /\ \A w1 \in Words, w2 \in Words :
          poolBigramFreq(recentPool_, w1, w2) = occ2All(w1, w2, recentPool_.recent_)
    /\ DOMAIN recentPool_.unigram_ \subseteq Words
    /\ DOMAIN recentPool_.bigram_ \subseteq {bigramKey(w1, w2) : w1 \in Words, w2 \in Words}
    /\ \A k \in DOMAIN recentPool_.unigram_ : recentPool_.unigram_[k] > 0
    /\ \A k \in DOMAIN recentPool_.bigram_ : recentPool_.bigram_[k] > 0

\* C18: an eviction has erased the key of a word from the full recent pool
C18_Witness ==
    /\ lastOp.op = "add" /\ Len(recentPool_.recent_) = MaxSize
    /\ \E w \in wordsOf(addLog) : w \notin DOMAIN recentPool_.unigram_

(* C19: add of the empty sentence leaves both pools as they are, also when  *)
(* the recent tier is at its cap: nothing is evicted, no count changes.     *)
C19_EmptyAddNoOp ==
    [][Add(<<>>) => UNCHANGED <<recentPool_, finalPool_>>]_vars

\* C19: the empty sentence was added to a history whose recent tier is at its cap
C19_Witness ==
    /\ lastOp.op = "add" /\ lastOp.empty
    /\ Len(recentPool_.recent_) = MaxSize

(* C20: after a successful load the two pools are what the load of the same *)
(* stream leaves in a newly constructed history, whatever the history held  *)
(* before: two histories with the same unknown floor that load the same     *)
(* stream answer score and isUnknown alike and add alike afterwards.        *)
C20_LoadReplaces ==
    (lastOp.op = "load" /\ lastOp.ok) =>
        LET fresh == load(NewPools, "recentPool_", file, 1).d
        IN /\ D = fresh
           /\ \A a \in QueryWords : isUnknown(D, a) <=> isUnknown(fresh, a)
           /\ \A a \in QueryWords, b \in QueryWords :
                 sameScore(score(D, unknown_, a, b), score(fresh, unknown_, a, b))

\* C20: the load replaced a history that counted a word the stream does not hold
C20_Witness == lastOp.op = "load" /\ lastOp.ok /\ lastOp.replaced

====
